---- MODULE Spec2Model ----
(***************************************************************************)
(* Save as JPG (GosuDRM/Save-as-JPG): the service worker's conversion      *)
(* pipeline (sw.js) as a state machine.                                    *)
(*                                                                         *)
(* Every invocation of the chrome.contextMenus.onClicked listener is an    *)
(* async function running on the service worker's single event loop.  One  *)
(* action of the model is one resumption of an invocation: the settlement  *)
(* of the promise it awaits (the host's effect included) followed by the   *)
(* synchronous code up to the next await.  inv[p].pc names the await at    *)
(* which invocation p is suspended.                                        *)
(***************************************************************************)
EXTENDS Integers, FiniteSets, Sequences, TLC

\* ------------------------------------------------------------------ bounds
NumInvocations == 2      \* listener invocations that may be in flight
MaxElapsed == 40         \* seconds the model lets a pending fetch age
MaxSinceDownload == 60   \* seconds the model follows a finished download
MaxTail == 3             \* characters that follow the padding of a name
MaxEvents == 4           \* right-clicks and menu clicks followed in one tab

\* ------------------------------------------------------- program constants
MENU_ID == "save-image-as-jpg"
FETCH_TIMEOUT == 30      \* seconds; the documented fetch budget
TickSeconds == 10        \* granularity of the modelled clock
HTTP_OK == 200
HTTP_NOT_FOUND == 404
DOWNLOAD_GRACE == 60     \* seconds; the documented delay before release
NoStatus == 0            \* no response yet, or the transport failed

Procs == 1..NumInvocations
NoOwner == 0

VARIABLES
  inv,       \* [Procs -> record]: the locals of each listener invocation
  docs,      \* number of live offscreen documents (host state)
  docOwner,  \* invocation whose createDocument made the live document
  raster,    \* one source image and what each strategy makes of it
  naming,    \* one file name and what sanitization makes of it
  store,     \* what chrome.storage.sync.get(DEFAULT_SETTINGS) yields
  tab        \* one tab: its content script and the click being resolved

vars == <<inv, docs, docOwner, raster, naming, store, tab>>

\* DEFAULT_SETTINGS; quality in percent (1.0 is 100).
WHITE == <<"#","f","f","f","f","f","f">>
DEFAULT_SETTINGS == [quality |-> 100, bgColor |-> WHITE, saveAs |-> FALSE]

\* No settings object yet.
Unread == [quality |-> 0, bgColor |-> <<>>, saveAs |-> FALSE]

(* The locals and the observable effects of one listener invocation.       *)
(*   pc               await at which the invocation is suspended           *)
(*   status           response.status of the fetch (NoStatus: none)        *)
(*   blob             result of fetchImage: "none" | "fetched"             *)
(*   jpegBlob         result of convertToJPEG: "none" | "jpeg"             *)
(*   documentCreated  local of convertWithOffscreenDocument                *)
(*   pending          completion carried through the finally block         *)
(*   directResult     "none"|"unavailable"|"pending"|"ok"|"failed"         *)
(*   delegatedResult  "none"|"pending"|"ok"|"failed"                       *)
(*   offscreenCanvas  typeof OffscreenCanvas as convertToJPEG probed it:   *)
(*                    "unprobed"|"defined"|"undefined"                     *)
(*   priorDirectFailure  an earlier conversion had failed directly when    *)
(*                    this one chose the direct strategy (kept while its   *)
(*                    createImageBitmap is pending)                        *)
(*   outcome          "none"|"ignored"|"success"|"failed"                  *)
(*   error            message of the error thrown, "" if none              *)
(*   failedStage      "none"|"settings"|"fetch"|"rasterize"|"delivery"     *)
(*   stageLog         stage events in the order they happened              *)
(*   createCalls, closeCalls, downloadCalls   host calls issued            *)
(*   created          this invocation's createDocument call succeeded      *)
(*   fileWritten      the host wrote the output file                       *)
(*   fetchElapsed     seconds the fetch has been pending (0: none pending) *)
(*   notifications    user-visible notifications raised                    *)
(*   consoleErrors    console.error calls of the listener                  *)
(*   bitmapOpen       an ImageBitmap created by the direct strategy has    *)
(*                    not been closed                                      *)
(*   transientRef     memory-backed reference (object URL) handed to the   *)
(*                    download: "none"|"live"|"released"                   *)
(*   sinceDownload    seconds since chrome.downloads.download succeeded    *)
(*   storageReads     chrome.storage.sync.get calls issued                 *)
(*   settings         the listener's const settings (Unread before)        *)
(*   rasterSettings   settings argument of convertToJPEG (Unread before)   *)
(*   saveAs           saveAs argument of downloadBlob (FALSE before)       *)
(*   teardownFailed   closeDocument rejected in the finally block          *)
InitInvocation ==
  [pc |-> "idle", status |-> NoStatus, blob |-> "none", jpegBlob |-> "none",
   documentCreated |-> FALSE, pending |-> "none",
   directResult |-> "none", delegatedResult |-> "none",
   offscreenCanvas |-> "unprobed", priorDirectFailure |-> FALSE,
   outcome |-> "none", error |-> "", failedStage |-> "none",
   stageLog |-> <<>>,
   createCalls |-> 0, closeCalls |-> 0, downloadCalls |-> 0,
   created |-> FALSE, fileWritten |-> FALSE,
   fetchElapsed |-> 0, notifications |-> 0, consoleErrors |-> 0,
   bitmapOpen |-> FALSE, transientRef |-> "none", sinceDownload |-> 0,
   storageReads |-> 0, settings |-> Unread, rasterSettings |-> Unread,
   saveAs |-> FALSE, teardownFailed |-> FALSE]

\* No file name is being followed step by step.
NoNaming == [phase |-> "none"]

\* No rasterization is being followed step by step.
NoRaster == [phase |-> "none"]

\* No tab is being followed step by step.
NoTab == [phase |-> "none"]

Init ==
  /\ inv = [p \in Procs |-> InitInvocation]
  /\ docs = 0
  /\ docOwner = NoOwner
  /\ raster = NoRaster
  /\ naming = NoNaming
  /\ store = DEFAULT_SETTINGS
  /\ tab = NoTab

\* ------------------------------------------------- pure steps of the code

\* The listener's catch block: the error that escaped is logged with
\* console.error; no other effect.
ListenerCatch(r, stage, msg) ==
  [r EXCEPT !.pc = "done", !.outcome = "failed", !.error = msg,
            !.failedStage = stage, !.consoleErrors = @ + 1]

\* convertAndDownload calls fetchImage, which issues fetch() and awaits it.
fetchImageCall(r) ==
  [r EXCEPT !.pc = "fetch", !.stageLog = Append(@, "fetch")]

\* The promise of fetch() settles: the request is no longer pending.
fetchSettle(r, status) == [r EXCEPT !.status = status, !.fetchElapsed = 0]

\* Variant: the status check is missing.
ResponseOk_any(status) == TRUE

\* response.ok
ResponseOk(status) == status >= 200 /\ status <= 299

\* fetchImage returns the body: convertAndDownload binds blob.
fetchImageReturn(r) ==
  [r EXCEPT !.blob = "fetched", !.stageLog = Append(@, "fetched")]

\* getSettings: the object built from the result of storage.sync.get
getSettings(result) ==
  [quality |-> result.quality, bgColor |-> result.bgColor,
   saveAs |-> result.saveAs]

\* Variant: downloadBlob takes the flag from the store as it is then.
downloadBlobCall_rereads(r) ==
  [r EXCEPT !.pc = "downloadDataURL", !.stageLog = Append(@, "deliver"),
            !.saveAs = store.saveAs, !.storageReads = @ + 1]

\* convertAndDownload calls downloadBlob(jpegBlob, settings.saveAs, srcUrl),
\* which awaits blobToDataURL.
downloadBlobCall(r) ==
  [r EXCEPT !.pc = "downloadDataURL", !.stageLog = Append(@, "deliver"),
            !.saveAs = r.settings.saveAs]

\* convertToJPEG returns the encoded blob: convertAndDownload binds jpegBlob
\* and goes on to downloadBlob.
convertToJPEGReturn(r) ==
  downloadBlobCall([r EXCEPT !.jpegBlob = "jpeg",
                             !.stageLog = Append(@, "rasterized")])

\* convertWithOffscreenDocument is entered: getContexts is issued and awaited.
convertWithOffscreenDocumentCall(r) ==
  [r EXCEPT !.pc = "getContexts", !.delegatedResult = "pending"]

\* Some invocation's direct strategy has already failed.
AnyDirectFailure == \E q \in Procs : inv[q].directResult = "failed"

\* Variant: a direct failure is remembered and the fallback used from then on.
DirectStrategySelected_sticky(available) == available /\ ~AnyDirectFailure

\* typeof OffscreenCanvas !== 'undefined'
DirectStrategySelected(available) == available

\* convertAndDownload calls convertToJPEG(blob, settings), which probes
\* OffscreenCanvas and hands the same object to the strategy it selects.
convertToJPEGCall(r, available) ==
  LET r1 == [r EXCEPT !.stageLog = Append(@, "rasterize"),
                      !.rasterSettings = r.settings,
                      !.offscreenCanvas =
                          IF available THEN "defined" ELSE "undefined"]
  IN IF DirectStrategySelected(available)
       THEN [r1 EXCEPT !.pc = "createImageBitmap", !.directResult = "pending",
                       !.priorDirectFailure = AnyDirectFailure]
       ELSE convertWithOffscreenDocumentCall(
              [r1 EXCEPT !.directResult = "unavailable"])

\* Variant: the direct strategy's error escapes convertToJPEG.
directCatch_rethrow(r) ==
  ListenerCatch([r EXCEPT !.directResult = "failed"], "rasterize",
                "direct strategy failed")

\* The catch block of convertToJPEG: warn, then fall through to the
\* delegated strategy.
directCatch(r) ==
  convertWithOffscreenDocumentCall([r EXCEPT !.directResult = "failed"])

\* Variant: the finally block closes the document whoever created it.
ShouldClose_always(documentCreated) == TRUE

\* if (documentCreated) in the finally block
ShouldClose(documentCreated) == documentCreated

\* convertWithOffscreenDocument completes (after its finally block).
delegatedComplete(r, completion, msg) ==
  IF completion = "ok"
    THEN convertToJPEGReturn(
           [r EXCEPT !.delegatedResult = "ok", !.pending = "none"])
    ELSE ListenerCatch([r EXCEPT !.delegatedResult = "failed", !.pending = "none"],
                       "rasterize", msg)

\* Variant: the document is closed after the try block only when it
\* returned, not when it threw.
delegatedFinally_onlyOnSuccess(r, completion, msg) ==
  IF ShouldClose(r.documentCreated) /\ completion = "ok"
    THEN [r EXCEPT !.pc = "closeDocument", !.pending = completion,
                   !.error = msg, !.closeCalls = @ + 1]
    ELSE delegatedComplete(r, completion, msg)

\* The try block of convertWithOffscreenDocument is left with `completion`:
\* the finally block runs.
delegatedFinally(r, completion, msg) ==
  IF ShouldClose(r.documentCreated)
    THEN [r EXCEPT !.pc = "closeDocument", !.pending = completion,
                   !.error = msg, !.closeCalls = @ + 1]
    ELSE delegatedComplete(r, completion, msg)

\* Variant: an error thrown by closeDocument leaves the finally block.
closeDocumentSettled_rethrow(r, closed) ==
  IF closed
    THEN delegatedComplete(r, r.pending, r.error)
    ELSE ListenerCatch([r EXCEPT !.delegatedResult = "failed",
                                 !.pending = "none", !.teardownFailed = TRUE],
                       "rasterize", "closeDocument failed")

\* The inner try/catch of the finally block: closeDocument has settled
\* (closed: it resolved); a rejection is ignored and the finally block ends
\* with the completion of the try block.
closeDocumentSettled(r, closed) ==
  delegatedComplete([r EXCEPT !.teardownFailed = ~closed], r.pending, r.error)

\* Some invocation's createDocument call has been rejected.
AnyCreationFailure ==
  \E q \in Procs :
    inv[q].createCalls > 0 /\ ~inv[q].created /\ inv[q].pc # "createDocument"

\* Variant: a failed creation is remembered and no new one is begun.
DocumentAbsent_unlessFailed(contexts) == contexts = 0 /\ ~AnyCreationFailure

\* contexts.length === 0
DocumentAbsent(contexts) == contexts = 0

\* Variant: createDocument succeeds whether or not a document is live.
createDocumentAccepted_any(n) == TRUE

\* The host accepts chrome.offscreen.createDocument only while the extension
\* has no offscreen document.
createDocumentAccepted(n) == n = 0

\* ------------------------------------------------------------------ actions
Set(p, r) ==
  inv' = [inv EXCEPT ![p] = r] /\ UNCHANGED <<raster, naming, store, tab>>

\* The listener is invoked for a context-menu click.
Click(p) ==
  /\ inv[p].pc = "idle"
  /\ \E menuItemId \in {MENU_ID, "other-item"} :
       IF menuItemId # MENU_ID
         THEN Set(p, [inv[p] EXCEPT !.pc = "done", !.outcome = "ignored"])
         ELSE Set(p, [inv[p] EXCEPT !.pc = "getSettings",
                                    !.storageReads = @ + 1])
  /\ UNCHANGED <<docs, docOwner>>

\* await getSettings() settles; the tab id decides whether the content
\* script is asked for a better URL.
GetSettingsDone(p) ==
  /\ inv[p].pc = "getSettings"
  /\ \E storageOk \in BOOLEAN, tabValid \in BOOLEAN :
       IF ~storageOk
         THEN Set(p, ListenerCatch(inv[p], "settings", "storage unavailable"))
         ELSE LET r == [inv[p] EXCEPT !.settings = getSettings(store)]
              IN IF tabValid
                   THEN Set(p, [r EXCEPT !.pc = "sendMessageTab"])
                   ELSE Set(p, fetchImageCall(r))
  /\ UNCHANGED <<docs, docOwner>>

\* await chrome.tabs.sendMessage settles (response found, not found, or the
\* content script is unavailable and the call throws); convertAndDownload
\* is called in every case.
TabResponse(p) ==
  /\ inv[p].pc = "sendMessageTab"
  /\ \E response \in {"found", "notFound", "throws"} :
       Set(p, fetchImageCall(inv[p]))
  /\ UNCHANGED <<docs, docOwner>>

\* Time passes while the fetch is pending.
FetchTick(p) ==
  /\ inv[p].pc = "fetch"
  /\ inv[p].fetchElapsed + TickSeconds <= MaxElapsed
  /\ Set(p, [inv[p] EXCEPT !.fetchElapsed = @ + TickSeconds])
  /\ UNCHANGED <<docs, docOwner>>

\* Variant: the body is not awaited; convertToJPEG starts on the response.
FetchSettled_noBodyAwait(p) ==
  /\ inv[p].pc = "fetch"
  /\ \E status \in {HTTP_OK, HTTP_NOT_FOUND, NoStatus}, available \in BOOLEAN :
       IF status = NoStatus
         THEN Set(p, ListenerCatch(fetchSettle(inv[p], status),
                                   "fetch", "Failed to fetch"))
         ELSE IF ~ResponseOk(status)
           THEN Set(p, ListenerCatch(fetchSettle(inv[p], status),
                                     "fetch", "HTTP 404"))
           ELSE Set(p, convertToJPEGCall(fetchSettle(inv[p], status), available))
  /\ UNCHANGED <<docs, docOwner>>

\* await fetch(url) settles: a response with a status, or a transport error.
FetchSettled(p) ==
  /\ inv[p].pc = "fetch"
  /\ \E status \in {HTTP_OK, HTTP_NOT_FOUND, NoStatus} :
       IF status = NoStatus
         THEN Set(p, ListenerCatch(fetchSettle(inv[p], status),
                                   "fetch", "Failed to fetch"))
         ELSE IF ~ResponseOk(status)
           THEN Set(p, ListenerCatch(fetchSettle(inv[p], status),
                                     "fetch", "HTTP 404"))
           ELSE Set(p, [fetchSettle(inv[p], status) EXCEPT !.pc = "blob"])
  /\ UNCHANGED <<docs, docOwner>>

\* await response.blob() settles; on success convertToJPEG starts.
ResponseBlob(p) ==
  /\ inv[p].pc = "blob"
  /\ \E bodyOk \in BOOLEAN, available \in BOOLEAN :
       IF ~bodyOk
         THEN Set(p, ListenerCatch(inv[p], "fetch", "Failed to fetch"))
         ELSE Set(p, convertToJPEGCall(fetchImageReturn(inv[p]), available))
  /\ UNCHANGED <<docs, docOwner>>

\* await createImageBitmap settles; on success the canvas is created, filled
\* and drawn synchronously, bitmap.close() is called and convertToBlob is
\* awaited.  A throw between createImageBitmap and bitmap.close() (canvas or
\* 2D context unavailable, fill or draw throwing) leaves the function
\* without closing the bitmap.
BitmapDecoded(p) ==
  /\ inv[p].pc = "createImageBitmap"
  /\ \E result \in {"decodeFailed", "drawFailed", "drawn"} :
       LET r == [inv[p] EXCEPT !.priorDirectFailure = FALSE]
       IN CASE result = "decodeFailed" ->
                 Set(p, directCatch(r))
            [] result = "drawFailed" ->
                 Set(p, directCatch([r EXCEPT !.bitmapOpen = TRUE]))
            [] result = "drawn" ->
                 Set(p, [r EXCEPT !.bitmapOpen = FALSE, !.pc = "convertToBlob"])
  /\ UNCHANGED <<docs, docOwner>>

\* await canvas.convertToBlob settles.
CanvasEncoded(p) ==
  /\ inv[p].pc = "convertToBlob"
  /\ \E encoded \in BOOLEAN :
       IF encoded
         THEN Set(p, convertToJPEGReturn([inv[p] EXCEPT !.directResult = "ok"]))
         ELSE Set(p, directCatch(inv[p]))
  /\ UNCHANGED <<docs, docOwner>>

\* await chrome.runtime.getContexts settles:
\* documentCreated = contexts.length === 0; createDocument is issued if so.
GetContexts(p) ==
  /\ inv[p].pc = "getContexts"
  /\ LET documentCreated == DocumentAbsent(docs)
     IN IF documentCreated
          THEN Set(p, [inv[p] EXCEPT !.documentCreated = TRUE,
                                     !.pc = "createDocument",
                                     !.createCalls = @ + 1])
          ELSE Set(p, [inv[p] EXCEPT !.documentCreated = FALSE,
                                     !.pc = "blobToDataURL"])
  /\ UNCHANGED <<docs, docOwner>>

\* await chrome.offscreen.createDocument settles.  A rejection is thrown
\* outside the try block and escapes to the listener.
CreateDocument(p) ==
  /\ inv[p].pc = "createDocument"
  /\ \E hostOk \in BOOLEAN :
       IF hostOk /\ createDocumentAccepted(docs)
         THEN /\ docs' = docs + 1
              /\ docOwner' = p
              /\ Set(p, [inv[p] EXCEPT !.created = TRUE, !.pc = "blobToDataURL"])
         ELSE /\ UNCHANGED <<docs, docOwner>>
              /\ Set(p, ListenerCatch(
                          [inv[p] EXCEPT !.delegatedResult = "failed"],
                          "rasterize", "createDocument failed"))

\* await blobToDataURL(blob) settles; on success the CONVERT_TO_JPEG
\* request is sent.
BlobToDataURL(p) ==
  /\ inv[p].pc = "blobToDataURL"
  /\ \E readOk \in BOOLEAN :
       IF readOk
         THEN Set(p, [inv[p] EXCEPT !.pc = "sendMessage"])
         ELSE Set(p, delegatedFinally(inv[p], "error", "read failed"))
  /\ UNCHANGED <<docs, docOwner>>

\* await chrome.runtime.sendMessage settles: the helper answers {dataUrl}
\* or {error}; with no live document the call rejects.
ConvertResponse(p) ==
  /\ inv[p].pc = "sendMessage"
  /\ \E response \in (IF docs > 0 THEN {"dataUrl", "error"} ELSE {"rejected"}) :
       CASE response = "dataUrl" ->
              Set(p, [inv[p] EXCEPT !.pc = "dataURLToBlob"])
         [] response = "error" ->
              Set(p, delegatedFinally(inv[p], "error", "helper error"))
         [] response = "rejected" ->
              Set(p, delegatedFinally(inv[p], "error", "no receiving end"))
  /\ UNCHANGED <<docs, docOwner>>

\* await dataURLToBlob settles; the finally block runs.
DataURLToBlob(p) ==
  /\ inv[p].pc = "dataURLToBlob"
  /\ \E decoded \in BOOLEAN :
       IF decoded
         THEN Set(p, delegatedFinally(inv[p], "ok", ""))
         ELSE Set(p, delegatedFinally(inv[p], "error", "Failed to fetch"))
  /\ UNCHANGED <<docs, docOwner>>

\* await chrome.offscreen.closeDocument settles: the host closes the live
\* document, or rejects when there is none (swallowed by the inner catch).
CloseDocument(p) ==
  /\ inv[p].pc = "closeDocument"
  /\ IF docs > 0
       THEN docs' = docs - 1 /\ docOwner' = NoOwner
       ELSE UNCHANGED <<docs, docOwner>>
  /\ Set(p, closeDocumentSettled(inv[p], docs > 0))

\* await blobToDataURL(jpegBlob) in downloadBlob settles; on success
\* chrome.downloads.download is issued.
DownloadDataURL(p) ==
  /\ inv[p].pc = "downloadDataURL"
  /\ \E readOk \in BOOLEAN :
       IF readOk
         THEN Set(p, [inv[p] EXCEPT !.pc = "download", !.downloadCalls = @ + 1])
         ELSE Set(p, ListenerCatch(inv[p], "delivery", "read failed"))
  /\ UNCHANGED <<docs, docOwner>>

\* await chrome.downloads.download settles.
DownloadSettled(p) ==
  /\ inv[p].pc = "download"
  /\ \E started \in BOOLEAN :
       IF started
         THEN Set(p, [inv[p] EXCEPT !.pc = "done", !.outcome = "success",
                                    !.fileWritten = TRUE,
                                    !.stageLog = Append(@, "delivered")])
         ELSE Set(p, ListenerCatch(inv[p], "delivery", "download failed"))
  /\ UNCHANGED <<docs, docOwner>>

\* Time passes after a successful download.
DownloadGraceTick(p) ==
  /\ inv[p].outcome = "success"
  /\ inv[p].sinceDownload + DOWNLOAD_GRACE <= MaxSinceDownload
  /\ Set(p, [inv[p] EXCEPT !.sinceDownload = @ + DOWNLOAD_GRACE])
  /\ UNCHANGED <<docs, docOwner>>

Next ==
  \E p \in Procs :
    \/ Click(p)
    \/ GetSettingsDone(p)
    \/ TabResponse(p)
    \/ FetchTick(p)
    \/ FetchSettled(p)
    \/ ResponseBlob(p)
    \/ BitmapDecoded(p)
    \/ CanvasEncoded(p)
    \/ GetContexts(p)
    \/ CreateDocument(p)
    \/ BlobToDataURL(p)
    \/ ConvertResponse(p)
    \/ DataURLToBlob(p)
    \/ CloseDocument(p)
    \/ DownloadDataURL(p)
    \/ DownloadSettled(p)

Spec == Init /\ [][Next]_vars

\* The service worker observed together with the time that passes after a
\* download has succeeded.
NextDelivery == Next \/ \E p \in Procs : DownloadGraceTick(p)

SpecDelivery == Init /\ [][NextDelivery]_vars

TypeOK ==
  /\ docs \in Nat
  /\ docOwner \in Procs \cup {NoOwner}
  /\ \A p \in Procs : inv[p].pc \in
       {"idle", "getSettings", "sendMessageTab", "fetch", "blob",
        "createImageBitmap", "convertToBlob", "getContexts", "createDocument",
        "blobToDataURL", "sendMessage", "dataURLToBlob", "closeDocument",
        "downloadDataURL", "download", "done"}

\* -------------------------------------------------------------- rasterizer
(* The geometry and fill decisions of the two strategies, followed on one   *)
(* source at a time.  Strings are sequences of one-character strings, so    *)
(* that startsWith, includes and toLowerCase are computed as the code       *)
(* computes them.  Math.round is taken over exact quotients.                *)

IMAGE_PNG == <<"i","m","a","g","e","/","p","n","g">>
IMAGE_JPEG == <<"i","m","a","g","e","/","j","p","e","g">>
IMAGE_SVG == <<"i","m","a","g","e","/","s","v","g","+","x","m","l">>
IMAGE_SVG_UTF8 == IMAGE_SVG \o <<";","c","h","a","r","s","e","t","=","u","t","f","-","8">>
NO_TYPE == <<>>
OCTET_STREAM == <<"a","p","p","l","i","c","a","t","i","o","n","/",
                  "o","c","t","e","t","-","s","t","r","e","a","m">>
SVG_MARKER == <<"s","v","g","+","x","m","l">>

\* Declared content types of the sources.
MimeTypes == {IMAGE_PNG, IMAGE_JPEG, IMAGE_SVG, IMAGE_SVG_UTF8, NO_TYPE}

\* Base64 payloads of the sources: an ordinary one, and one whose text
\* happens to spell the marker in mixed case.
Payloads == {<<"i","V","B","O","R","w","0","K">>,
             <<"A","A","s","V","g","+","X","m","L","9">>}

\* Intrinsic widths and heights the decoder may report.
Dims == {0, 1, 16, 300, 500, 1000, 1023, 1024, 2000}

UpperCase == <<"A","B","C","D","E","F","G","H","I","J","K","L","M",
               "N","O","P","Q","R","S","T","U","V","W","X","Y","Z">>
LowerCase == <<"a","b","c","d","e","f","g","h","i","j","k","l","m",
               "n","o","p","q","r","s","t","u","v","w","x","y","z">>

toLowerCase(s) ==
  [i \in 1..Len(s) |->
     IF \E k \in 1..Len(UpperCase) : UpperCase[k] = s[i]
       THEN LowerCase[CHOOSE k \in 1..Len(UpperCase) : UpperCase[k] = s[i]]
       ELSE s[i]]

startsWith(s, t) == Len(s) >= Len(t) /\ SubSeq(s, 1, Len(t)) = t

includes(s, t) ==
  \E i \in 0..(Len(s) - Len(t)) : SubSeq(s, i + 1, i + Len(t)) = t

Max(a, b) == IF a >= b THEN a ELSE b

\* a || b on numbers
OrElse(a, b) == IF a # 0 THEN a ELSE b

\* Math.round(n / d) for n >= 0, d > 0
Round(n, d) == (2 * n + d) \div (2 * d)

\* FileReader.readAsDataURL: data:<type>;base64,<payload>
blobToDataURL(mime, payload) ==
  <<"d","a","t","a",":">>
    \o (IF mime = NO_TYPE THEN OCTET_STREAM ELSE mime)
    \o <<";","b","a","s","e","6","4",",">> \o payload

\* Variant: the fill is applied to every source.
NeedsBackground_always(mime) == TRUE

\* convertToJPEG: needsBackground = !mimeType.startsWith('image/jpeg')
NeedsBackground(mime) == ~startsWith(mime, IMAGE_JPEG)

\* convertWithOffscreenCanvas: isSVG
directIsSVG(mime) == mime = IMAGE_SVG

\* convertWithOffscreenCanvas: the width and height of the OffscreenCanvas
directTarget(mime, w, h) ==
  IF directIsSVG(mime) /\ Max(w, h) < 1024
    THEN LET longer == OrElse(Max(w, h), 1)
         IN [width |-> Round(w * 2048, longer),
             height |-> Round(h * 2048, longer)]
    ELSE [width |-> w, height |-> h]

\* convertWithOffscreenCanvas up to the draw.
convertWithOffscreenCanvas(mime, w, h, needsBackground) ==
  LET t == directTarget(mime, w, h)
  IN [isSVG |-> directIsSVG(mime), width |-> t.width, height |-> t.height,
      needsBackground |-> needsBackground, filled |-> needsBackground]

\* The CONVERT_TO_JPEG request built by convertWithOffscreenDocument.
convertRequest(mime, payload, needsBackground) ==
  [type |-> "CONVERT_TO_JPEG", dataUrl |-> blobToDataURL(mime, payload),
   needsBackground |-> needsBackground]

\* handleConvertToJPEG: isSVG
helperIsSVG(dataUrl) == includes(toLowerCase(dataUrl), SVG_MARKER)

\* handleConvertToJPEG: the width and height of the canvas.  natural and
\* element are the image's naturalWidth/Height and width/height.
helperTarget(dataUrl, naturalW, naturalH, elementW, elementH) ==
  LET w == OrElse(OrElse(naturalW, elementW), 0)
      h == OrElse(OrElse(naturalH, elementH), 0)
      scaled ==
        IF helperIsSVG(dataUrl) /\ Max(w, h) < 1024
          THEN LET aspectNum == IF w > 0 /\ h > 0 THEN w ELSE 1
                   aspectDen == IF w > 0 /\ h > 0 THEN h ELSE 1
                   longer == OrElse(Max(w, h), 1)
               IN [width |-> Round(OrElse(w, 2048) * 2048, longer),
                   height |->
                     IF h # 0
                       THEN Round(h * 2048, longer)
                       ELSE Round(2048 * aspectDen * 2048, aspectNum * longer)]
          ELSE [width |-> w, height |-> h]
  IN IF scaled.width = 0 \/ scaled.height = 0
       THEN [width |-> 2048, height |-> 2048]
       ELSE scaled

\* handleConvertToJPEG up to the draw.
handleConvertToJPEG(message, w, h) ==
  LET t == helperTarget(message.dataUrl, w, h, w, h)
  IN [isSVG |-> helperIsSVG(message.dataUrl),
      width |-> t.width, height |-> t.height,
      needsBackground |-> message.needsBackground,
      filled |-> message.needsBackground]

NotRun == [run |-> FALSE]

InitRaster ==
  /\ inv = [p \in Procs |-> InitInvocation]
  /\ docs = 0
  /\ docOwner = NoOwner
  /\ \E mime \in MimeTypes, payload \in Payloads, w \in Dims, h \in Dims :
       raster = [phase |-> "decoded", mime |-> mime, payload |-> payload,
                 w |-> w, h |-> h, direct |-> NotRun, helper |-> NotRun]
  /\ naming = NoNaming
  /\ store = DEFAULT_SETTINGS
  /\ tab = NoTab

\* The direct strategy rasterizes the source.
DirectRasterize ==
  /\ raster.phase = "decoded"
  /\ ~raster.direct.run
  /\ raster' = [raster EXCEPT !.direct =
       [run |-> TRUE,
        out |-> convertWithOffscreenCanvas(raster.mime, raster.w, raster.h,
                                           NeedsBackground(raster.mime))]]
  /\ UNCHANGED <<inv, docs, docOwner, naming, store, tab>>

\* The delegated strategy sends the source to the helper, which rasterizes it.
HelperRasterize ==
  /\ raster.phase = "decoded"
  /\ ~raster.helper.run
  /\ raster' = [raster EXCEPT !.helper =
       [run |-> TRUE,
        out |-> handleConvertToJPEG(
                  convertRequest(raster.mime, raster.payload,
                                 NeedsBackground(raster.mime)),
                  raster.w, raster.h)]]
  /\ UNCHANGED <<inv, docs, docOwner, naming, store, tab>>

NextRaster == DirectRasterize \/ HelperRasterize

SpecRaster == InitRaster /\ [][NextRaster]_vars

\* ------------------------------------------------------------------ helper
(* One runtime message followed through the offscreen document's listener   *)
(* (offscreen.js) and back to convertWithOffscreenDocument.                 *)
(*   img        the local img of handleConvertToJPEG: "null" | "element"    *)
(*   bindings   onload/onerror/src of the Image made by loadImage:          *)
(*              "none" | "bound" | "detached"                               *)
(*   responses  the arguments of the sendResponse calls, in order           *)
(*   requester  convertWithOffscreenDocument after the await:               *)
(*              "waiting" | "decoding" (dataURLToBlob) | "thrown"           *)

CONVERT_TO_JPEG == "CONVERT_TO_JPEG"
Undefined == "undefined"

\* Message types the document's listener may receive.
MessageTypes == {CONVERT_TO_JPEG, "GET_IMAGE_URL"}

\* Where the conversion may fail once the image has loaded.
HelperFailures == {"none", "context", "draw", "encode"}

\* error.message of what the try block throws at each step ("" if nothing).
thrownMessage(loaded, failure) ==
  CASE ~loaded -> "Failed to load image"
    [] loaded /\ failure = "context" -> "Failed to get canvas 2D context"
    [] loaded /\ failure = "draw" -> "drawImage failed"
    [] loaded /\ failure = "encode" -> "toDataURL failed"
    [] OTHER -> ""

\* sendResponse(response)
helperRespond(h, response) == [h EXCEPT !.responses = Append(@, response)]

\* Variant: the catch block logs the error and sends nothing.
helperCatch_silent(h, msg) == h

\* The catch block of handleConvertToJPEG: sendResponse({ error: error.message })
helperCatch(h, msg) == helperRespond(h, [dataUrl |-> Undefined, error |-> msg])

\* The finally block of handleConvertToJPEG: if (img) detach its bindings.
helperFinally(h) ==
  IF h.img # "null" THEN [h EXCEPT !.bindings = "detached"] ELSE h

\* if (response.error) throw new Error(response.error)
responseThrows(response) == response.error \notin {Undefined, ""}

InitHelper ==
  /\ inv = [p \in Procs |-> InitInvocation]
  /\ docs = 0
  /\ docOwner = NoOwner
  /\ \E type \in MessageTypes, mime \in MimeTypes, payload \in Payloads,
        w \in Dims, h \in Dims :
       raster = [phase |-> "sent",
                 message |-> [convertRequest(mime, payload, NeedsBackground(mime))
                                EXCEPT !.type = type],
                 w |-> w, h |-> h,
                 img |-> "null", bindings |-> "none", responses |-> <<>>,
                 canvas |-> NotRun, requester |-> "waiting", error |-> ""]
  /\ naming = NoNaming
  /\ store = DEFAULT_SETTINGS
  /\ tab = NoTab

\* The document's onMessage listener runs: a CONVERT_TO_JPEG message starts
\* handleConvertToJPEG, which calls loadImage (an Image is made, its
\* handlers and src are set) and awaits it; any other message is left
\* unanswered.
HelperOnMessage ==
  /\ raster.phase = "sent"
  /\ raster' = IF raster.message.type = CONVERT_TO_JPEG
                 THEN [raster EXCEPT !.phase = "loading", !.bindings = "bound"]
                 ELSE [raster EXCEPT !.phase = "ignored"]
  /\ UNCHANGED <<inv, docs, docOwner, naming, store, tab>>

\* await loadImage settles (onload or onerror); the rest of
\* handleConvertToJPEG runs: canvas, context, fill, draw, encode,
\* sendResponse; the catch block; the finally block.
HelperImageSettled ==
  /\ raster.phase = "loading"
  /\ \E loaded \in BOOLEAN, failure \in HelperFailures :
       LET thrown == thrownMessage(loaded, failure)
           h1 == IF loaded
                   THEN [raster EXCEPT
                           !.img = "element",
                           !.canvas = [run |-> TRUE,
                                       out |-> handleConvertToJPEG(
                                                 raster.message, raster.w, raster.h)]]
                   ELSE raster
           h2 == IF thrown = ""
                   THEN helperRespond(h1, [dataUrl |-> "jpeg", error |-> Undefined])
                   ELSE helperCatch(h1, thrown)
       IN raster' = [helperFinally(h2) EXCEPT !.phase = "handled"]
  /\ UNCHANGED <<inv, docs, docOwner, naming, store, tab>>

\* await chrome.runtime.sendMessage settles in convertWithOffscreenDocument
\* with the response the document sent.
RequesterResumes ==
  /\ raster.phase = "handled"
  /\ raster.responses # <<>>
  /\ LET response == raster.responses[1]
     IN raster' = IF responseThrows(response)
                    THEN [raster EXCEPT !.phase = "resumed",
                                        !.requester = "thrown",
                                        !.error = response.error]
                    ELSE [raster EXCEPT !.phase = "resumed",
                                        !.requester = "decoding"]
  /\ UNCHANGED <<inv, docs, docOwner, naming, store, tab>>

NextHelper == HelperOnMessage \/ HelperImageSettled \/ RequesterResumes

SpecHelper == InitHelper /\ [][NextHelper]_vars

\* ---------------------------------------------------------------- file name
(* The sanitization steps of getSuggestedFilename on names that are         *)
(* sequences of one-character strings.                                      *)

MAX_NAME_LENGTH == 150

\* The characters of /[\0\\/:*?"<>|]/ ("NUL" stands for \0).
IllegalChars == {"NUL", "\\", "/", ":", "*", "?", "\"", "<", ">", "|"}

\* Characters String.prototype.trim removes (those the names here use).
WhiteSpace == {" ", "\t"}

\* name.replace(/[\0\\/:*?"<>|]/g, '_')
replaceIllegal(name) ==
  [i \in 1..Len(name) |-> IF name[i] \in IllegalChars THEN "_" ELSE name[i]]

\* name.trim()
trim(name) ==
  LET keep == {i \in 1..Len(name) : name[i] \notin WhiteSpace}
  IN IF keep = {}
       THEN <<>>
       ELSE SubSeq(name,
                   CHOOSE i \in keep : \A j \in keep : i <= j,
                   CHOOSE i \in keep : \A j \in keep : i >= j)

\* name.substring(0, 150) when name.length > 150
truncate(name) ==
  IF Len(name) > MAX_NAME_LENGTH THEN SubSeq(name, 1, MAX_NAME_LENGTH) ELSE name

\* The sanitization steps in the order of the code: replace, trim, (empty:
\* null, here <<>>), truncate.
sanitize(name) ==
  LET trimmed == trim(replaceIllegal(name))
  IN IF trimmed = <<>> THEN <<>> ELSE truncate(trimmed)

\* n letters
Pad(n) == [i \in 1..n |-> "a"]

NameChars == {"a", " ", "/", "_"}

\* Sequences over NameChars of length at most MaxTail.
Tails == UNION {[1..n -> NameChars] : n \in 0..MaxTail}

\* Lengths of the padding: none, and around the truncation limit.
PadLengths == {0} \cup ((MAX_NAME_LENGTH - 3)..MAX_NAME_LENGTH)

InitName ==
  /\ inv = [p \in Procs |-> InitInvocation]
  /\ docs = 0
  /\ docOwner = NoOwner
  /\ raster = NoRaster
  /\ \E n \in PadLengths, tail \in Tails :
       naming = [phase |-> "raw", name |-> Pad(n) \o tail,
                 sanitized |-> <<>>, again |-> <<>>]
  /\ store = DEFAULT_SETTINGS
  /\ tab = NoTab

\* The name is sanitized.
Sanitize ==
  /\ naming.phase = "raw"
  /\ naming' = [naming EXCEPT !.phase = "sanitized",
                              !.sanitized = sanitize(naming.name)]
  /\ UNCHANGED <<inv, docs, docOwner, raster, store, tab>>

\* The sanitized name is sanitized again.
Resanitize ==
  /\ naming.phase = "sanitized"
  /\ naming.sanitized # <<>>
  /\ naming' = [naming EXCEPT !.phase = "resanitized",
                              !.again = sanitize(naming.sanitized)]
  /\ UNCHANGED <<inv, docs, docOwner, raster, store, tab>>

NextName == Sanitize \/ Resanitize

SpecName == InitName /\ [][NextName]_vars

\* The service worker when the user clicks again only after the listener
\* of the previous click has completed.
NextSequential ==
  \E p \in Procs :
    \/ Click(p) /\ \A q \in Procs \ {p} : inv[q].pc \in {"idle", "done"}
    \/ GetSettingsDone(p)
    \/ TabResponse(p)
    \/ FetchTick(p)
    \/ FetchSettled(p)
    \/ ResponseBlob(p)
    \/ BitmapDecoded(p)
    \/ CanvasEncoded(p)
    \/ GetContexts(p)
    \/ CreateDocument(p)
    \/ BlobToDataURL(p)
    \/ ConvertResponse(p)
    \/ DataURLToBlob(p)
    \/ CloseDocument(p)
    \/ DownloadDataURL(p)
    \/ DownloadSettled(p)

SpecSequential == Init /\ [][NextSequential]_vars

\* ------------------------------------------------------- derived file name
(* downloadBlob's file name, followed from the URL string to the name that  *)
(* chrome.downloads.download receives.  new URL() is modelled on https URLs *)
(* and on relative references (which it rejects); decodeURIComponent on the *)
(* escapes that the characters of UrlChars can spell.                       *)

MaxSegment == 3          \* characters generated at the end of the last segment

HTTPS == <<"h","t","t","p","s",":","/","/">>
DOT_JPG == <<".","j","p","g">>
PHOTO_NAME == <<"p","h","o","t","o",".","n","a","m","e">>
DOT_WEBP == <<".","w","e","b","p">>

Min(S) == CHOOSE i \in S : \A j \in S : i <= j

\* s.indexOf(c) for a character c in a set; 0 when absent
IndexOfAny(s, cs) ==
  LET at == {i \in 1..Len(s) : s[i] \in cs}
  IN IF at = {} THEN 0 ELSE Min(at)

\* s.lastIndexOf(c); 0 when absent
lastIndexOf(s, c) ==
  LET at == {i \in 1..Len(s) : s[i] = c}
  IN IF at = {} THEN 0 ELSE CHOOSE i \in at : \A j \in at : i >= j

\* s.split(c)[0]
splitFirst(s, c) ==
  LET i == IndexOfAny(s, {c})
  IN IF i = 0 THEN s ELSE SubSeq(s, 1, i - 1)

\* s.split(c)
RECURSIVE split(_, _)
split(s, c) ==
  LET i == IndexOfAny(s, {c})
  IN IF i = 0
       THEN <<s>>
       ELSE <<SubSeq(s, 1, i - 1)>> \o split(SubSeq(s, i + 1, Len(s)), c)

\* parts.join(c)
RECURSIVE join(_, _)
join(parts, c) ==
  IF parts = <<>> THEN <<>>
  ELSE IF Len(parts) = 1 THEN parts[1]
  ELSE parts[1] \o <<c>> \o join(Tail(parts), c)

\* The URL parser's path state: "." and ".." segments are resolved, a
\* trailing one leaves an empty last segment.
RECURSIVE resolveDots(_, _)
resolveDots(segments, path) ==
  IF segments = <<>> THEN path
  ELSE LET seg == Head(segments)
           isLast == Len(segments) = 1
           popped == IF path = <<>> THEN <<>> ELSE SubSeq(path, 1, Len(path) - 1)
       IN resolveDots(Tail(segments),
            CASE seg = <<".", ".">> -> IF isLast THEN Append(popped, <<>>) ELSE popped
              [] seg = <<".">> -> IF isLast THEN Append(path, <<>>) ELSE path
              [] OTHER -> Append(path, seg))

\* new URL(url): throws on a string without a scheme; .pathname is the text
\* between the authority and the first "?" or "#", dot segments resolved.
parseURL(url) ==
  IF ~startsWith(url, HTTPS)
    THEN [ok |-> FALSE, pathname |-> <<>>]
    ELSE LET rest == SubSeq(url, Len(HTTPS) + 1, Len(url))
             stop == IndexOfAny(rest, {"?", "#"})
             hier == IF stop = 0 THEN rest ELSE SubSeq(rest, 1, stop - 1)
             slash == IndexOfAny(hier, {"/"})
             rawPath == IF slash = 0 THEN <<>>
                        ELSE SubSeq(hier, slash + 1, Len(hier))
         IN [ok |-> TRUE,
             pathname |-> <<"/">> \o join(resolveDots(split(rawPath, "/"), <<>>), "/")]

\* The escapes that the characters of UrlChars can spell, with the character
\* each decodes to (NUL, STX, ETX and SI stand for the control characters).
\* An escape of a byte above 0x7F needs continuation escapes after it, which
\* those characters cannot spell.
EscapeTable ==
  {<<"0","0","NUL">>, <<"0","2","STX">>, <<"0","3","ETX">>, <<"0","F","SI">>,
   <<"2","0"," ">>, <<"2","2","\"">>, <<"2","3","#">>, <<"2","F","/">>,
   <<"3","0","0">>, <<"3","2","2">>, <<"3","3","3">>, <<"3","F","?">>}

\* decodeURIComponent(s): ok is FALSE where it throws URIError.  The text
\* before the next "%" is copied, the escape that follows is decoded.
RECURSIVE decodeURIComponent(_)
decodeURIComponent(s) ==
  LET i == IndexOfAny(s, {"%"})
  IN IF i = 0 THEN [ok |-> TRUE, value |-> s]
     ELSE IF i + 2 > Len(s)
               \/ ~\E e \in EscapeTable : e[1] = s[i + 1] /\ e[2] = s[i + 2]
       THEN [ok |-> FALSE, value |-> <<>>]
     ELSE LET e == CHOOSE e \in EscapeTable : e[1] = s[i + 1] /\ e[2] = s[i + 2]
              rest == decodeURIComponent(SubSeq(s, i + 3, Len(s)))
          IN [ok |-> rest.ok,
              value |-> IF rest.ok
                          THEN SubSeq(s, 1, i - 1) \o <<e[3]>> \o rest.value
                          ELSE <<>>]

\* pathname.split('/').pop() || ''
lastPathSegment(pathname) ==
  LET parts == split(pathname, "/") IN parts[Len(parts)]

\* name.substring(0, dot) when name.lastIndexOf('.') > -1
stripExtension(name) ==
  LET dot == lastIndexOf(name, ".")
  IN IF dot > 0 THEN SubSeq(name, 1, dot - 1) ELSE name

\* Variant: the segment is decoded before the query and fragment are cut.
getSuggestedFilename_decodeFirst(url) ==
  LET parsed == parseURL(url)
      name == lastPathSegment(parsed.pathname)
      decoded == decodeURIComponent(name)
      clean == sanitize(stripExtension(
                 splitFirst(splitFirst(decoded.value, "?"), "#")))
  IN IF ~parsed.ok \/ name = <<>> \/ ~decoded.ok \/ clean = <<>>
       THEN <<>>
       ELSE clean \o DOT_JPG

\* getSuggestedFilename(url); null is <<>> (a returned name is never empty).
getSuggestedFilename(url) ==
  LET parsed == parseURL(url)
      name == lastPathSegment(parsed.pathname)
      decoded == decodeURIComponent(splitFirst(splitFirst(name, "?"), "#"))
      clean == sanitize(stripExtension(decoded.value))
  IN IF ~parsed.ok \/ name = <<>> \/ ~decoded.ok \/ clean = <<>>
       THEN <<>>
       ELSE clean \o DOT_JPG

\* s.replace('T', '_'): the first occurrence only
replaceFirstT(s) ==
  LET i == IndexOfAny(s, {"T"})
  IN IF i = 0 THEN s ELSE [s EXCEPT ![i] = "_"]

\* getTimestampFilename(), now being new Date().toISOString()
getTimestampFilename(now) ==
  LET digits == SelectSeq(now, LAMBDA c : c \notin {"-", ":"})
      ts == SubSeq(replaceFirstT(digits), 1, 15)
  IN ts \o DOT_JPG

\* downloadBlob: getSuggestedFilename(srcUrl) || getTimestampFilename()
downloadFilename(url, now) ==
  LET suggested == getSuggestedFilename(url)
  IN IF suggested # <<>> THEN suggested ELSE getTimestampFilename(now)

\* Characters generated at the end of the last path segment.
UrlChars == {"p", ".", "%", "0", "2", "3", "F"}

SegmentTails == UNION {[1..n -> UrlChars] : n \in 0..MaxSegment}

\* What precedes the last segment: a page's directory, or nothing (a
\* relative reference).
UrlBases == {HTTPS \o <<"x",".","t","e","s","t","/","p","a","t","h","/">>, <<>>}

\* How the last segment starts: empty, a dotted name, a name near the limit.
SegmentHeads == {<<>>, PHOTO_NAME, Pad(MAX_NAME_LENGTH - 3)}

UrlExtensions == {<<>>, DOT_WEBP}

UrlSuffixes == {<<>>, <<"#","y">>, <<"?","x","=","1","#","y">>}

\* Values of new Date().toISOString()
Instants ==
  {<<"2","0","2","4","-","0","1","-","1","5","T",
     "1","0",":","3","0",":","4","5",".","1","2","3","Z">>,
   <<"1","9","9","9","-","1","2","-","3","1","T",
     "2","3",":","5","9",":","5","9",".","0","0","0","Z">>}

InitFilename ==
  /\ inv = [p \in Procs |-> InitInvocation]
  /\ docs = 0
  /\ docOwner = NoOwner
  /\ raster = NoRaster
  /\ \E base \in UrlBases, head \in SegmentHeads, tail \in SegmentTails,
        ext \in UrlExtensions, suffix \in UrlSuffixes, now \in Instants :
       naming = [phase |-> "url", url |-> base \o head \o tail \o ext \o suffix,
                 now |-> now, filename |-> <<>>]
  /\ store = DEFAULT_SETTINGS
  /\ tab = NoTab

\* downloadBlob derives the name it hands to chrome.downloads.download.
DeriveFilename ==
  /\ naming.phase = "url"
  /\ naming' = [naming EXCEPT !.phase = "named",
                              !.filename = downloadFilename(naming.url, naming.now)]
  /\ UNCHANGED <<inv, docs, docOwner, raster, store, tab>>

NextFilename == DeriveFilename

SpecFilename == InitFilename /\ [][NextFilename]_vars

\* ------------------------------------------------------------- environment
(* The service worker together with what acts on it from outside: the       *)
(* options page writing the preferences, and the host ending the offscreen  *)
(* document on its own.                                                     *)

NumObserved == 1         \* invocations in flight while the environment acts

Observed == 1..NumObserved

HexDigits == {"0","1","2","3","4","5","6","7","8","9",
              "a","b","c","d","e","f","A","B","C","D","E","F"}

\* isValidHexColor: /^#([0-9A-Fa-f]{3}|[0-9A-Fa-f]{6})$/
isValidHexColor(color) ==
  /\ Len(color) \in {4, 7}
  /\ color[1] = "#"
  /\ \A i \in 2..Len(color) : color[i] \in HexDigits

\* What the options form may hold when it is submitted: the quality slider
\* (in percent), the colour text and the save-as checkbox.
FormInputs ==
  {[quality |-> 50, bgColor |-> <<" ","#","0","0","0","F","F","F"," ">>,
    saveAs |-> TRUE],
   [quality |-> 50, bgColor |-> <<"r","e","d">>, saveAs |-> TRUE]}

\* options.js saveSettings: the colour is trimmed, lowercased and validated;
\* an invalid colour or a rejected storage.sync.set writes nothing.
SaveSettings ==
  /\ \E form \in FormInputs, setOk \in BOOLEAN :
       LET bgColor == toLowerCase(trim(form.bgColor))
       IN IF isValidHexColor(bgColor) /\ setOk
            THEN store' = [quality |-> form.quality, bgColor |-> bgColor,
                           saveAs |-> form.saveAs]
            ELSE UNCHANGED store
  /\ UNCHANGED <<inv, docs, docOwner, raster, naming, tab>>

\* options.js resetToDefaults
ResetToDefaults ==
  /\ store' = DEFAULT_SETTINGS
  /\ UNCHANGED <<inv, docs, docOwner, raster, naming, tab>>

\* The host ends the offscreen document without a closeDocument call.
DocumentDiscarded ==
  /\ docs > 0
  /\ docs' = docs - 1
  /\ docOwner' = NoOwner
  /\ UNCHANGED <<inv, raster, naming, store, tab>>

NextEnvironment ==
  \/ \E p \in Observed :
       \/ Click(p)
       \/ GetSettingsDone(p)
       \/ TabResponse(p)
       \/ FetchTick(p)
       \/ FetchSettled(p)
       \/ ResponseBlob(p)
       \/ BitmapDecoded(p)
       \/ CanvasEncoded(p)
       \/ GetContexts(p)
       \/ CreateDocument(p)
       \/ BlobToDataURL(p)
       \/ ConvertResponse(p)
       \/ DataURLToBlob(p)
       \/ CloseDocument(p)
       \/ DownloadDataURL(p)
       \/ DownloadSettled(p)
  \/ SaveSettings
  \/ ResetToDefaults
  \/ DocumentDiscarded

SpecEnvironment == Init /\ [][NextEnvironment]_vars

\* --------------------------------------------------------------------- tab
\* The content script of one tab and the front of the onClicked listener,
\* followed one click at a time.  An element carries its tag name, the src
\* Chrome reports for it and the URL getBestImageUrl resolves for it.
GET_IMAGE_URL == "GET_IMAGE_URL"
TAB_ID_NONE == 0 - 1
NoTabId == 0
TabIds == {NoTabId, TAB_ID_NONE, 7}

NoElement == [tagName |-> "", src |-> "", best |-> ""]
Elements ==
  {[tagName |-> "IMG", src |-> "https://x.test/a.png",
    best |-> "https://x.test/a-2x.png"],
   [tagName |-> "IMG", src |-> "https://x.test/b.png",
    best |-> "https://x.test/b.png"],
   [tagName |-> "DIV", src |-> "https://x.test/bg.png", best |-> ""]}
SrcUrls == {e.src : e \in Elements}

\* The URL the content script reports for an image element.
getBestImageUrl(img) == img.best

\* The capture-phase contextmenu listener: the new value of lastClickedImage.
contextmenuListener(target) ==
  IF target.tagName = "IMG" THEN target ELSE NoElement

\* Variant: the reference is kept after a found answer.
onGetImageUrl_keepsReference(lastClickedImage, fallbackUrl) ==
  IF lastClickedImage # NoElement
    THEN [response |-> [url |-> getBestImageUrl(lastClickedImage),
                        found |-> TRUE],
          lastClickedImage |-> lastClickedImage]
    ELSE [response |-> [url |-> fallbackUrl, found |-> FALSE],
          lastClickedImage |-> lastClickedImage]

\* The onMessage listener on a GET_IMAGE_URL message: the response sent and
\* the new value of lastClickedImage.
onGetImageUrl(lastClickedImage, fallbackUrl) ==
  IF lastClickedImage # NoElement
    THEN [response |-> [url |-> getBestImageUrl(lastClickedImage),
                        found |-> TRUE],
          lastClickedImage |-> NoElement]
    ELSE [response |-> [url |-> fallbackUrl, found |-> FALSE],
          lastClickedImage |-> lastClickedImage]

\* tab?.id && tab.id !== chrome.tabs.TAB_ID_NONE
validTabId(tabId) == tabId # NoTabId /\ tabId # TAB_ID_NONE

\* No click is being handled by the listener.
NoClick ==
  [pc |-> "idle", menuItemId |-> "", tabId |-> NoTabId, srcUrl |-> "",
   imageUrl |-> "", message |-> "none",
   response |-> [url |-> "", found |-> FALSE]]

\* convertAndDownload(imageUrl, settings) is called.
convertAndDownloadCall(c) == [c EXCEPT !.pc = "pipeline"]

\* if (response?.found) imageUrl = response.url; then the pipeline starts.
onClickedResponse(c, response) ==
  convertAndDownloadCall(
    [c EXCEPT !.message = "answered", !.response = response,
              !.imageUrl = IF response.found THEN response.url ELSE @])

\* Variant: the rejection of tabs.sendMessage reaches the outer catch.
onClickedMessageCatch_abort(c) ==
  [c EXCEPT !.message = "threw", !.pc = "failed"]

\* The inner catch: the rejection is logged and the pipeline starts.
onClickedMessageCatch(c) ==
  convertAndDownloadCall([c EXCEPT !.message = "threw"])

InitTab ==
  /\ inv = [p \in Procs |-> InitInvocation]
  /\ docs = 0
  /\ docOwner = NoOwner
  /\ raster = NoRaster
  /\ naming = NoNaming
  /\ store = DEFAULT_SETTINGS
  /\ tab = [phase |-> "page", lastClickedImage |-> NoElement,
            lastTarget |-> NoElement, answeredSince |-> FALSE,
            requests |-> 0, lastResponse |-> [url |-> "", found |-> FALSE],
            events |-> 0, click |-> NoClick]

TabRest == UNCHANGED <<inv, docs, docOwner, raster, naming, store>>

\* The user right-clicks an element of the page.
ContextMenuEvent ==
  /\ tab.phase = "page"
  /\ tab.events < MaxEvents
  /\ \E target \in Elements :
       tab' = [tab EXCEPT !.lastClickedImage = contextmenuListener(target),
                          !.lastTarget = target,
                          !.answeredSince = FALSE,
                          !.events = @ + 1]
  /\ TabRest

\* The listener is invoked for a context-menu click.
OnClicked ==
  /\ tab.phase = "page"
  /\ tab.click.pc \in {"idle", "ignored", "failed", "pipeline"}
  /\ tab.events < MaxEvents
  /\ \E menuItemId \in {MENU_ID, "other-item"}, tabId \in TabIds,
        srcUrl \in SrcUrls :
       LET c == [NoClick EXCEPT !.menuItemId = menuItemId, !.tabId = tabId,
                                !.srcUrl = srcUrl]
       IN tab' = [tab EXCEPT
                    !.events = @ + 1,
                    !.click = IF menuItemId # MENU_ID
                                THEN [c EXCEPT !.pc = "ignored"]
                                ELSE [c EXCEPT !.pc = "getSettings"]]
  /\ TabRest

\* await getSettings() settles; imageUrl starts as info.srcUrl and the tab
\* id decides whether the content script is asked.
OnClickedSettings ==
  /\ tab.phase = "page"
  /\ tab.click.pc = "getSettings"
  /\ \E storageOk \in BOOLEAN :
       LET c == [tab.click EXCEPT !.imageUrl = tab.click.srcUrl]
       IN tab' = [tab EXCEPT !.click =
                    IF ~storageOk
                      THEN [tab.click EXCEPT !.pc = "failed"]
                      ELSE IF validTabId(c.tabId)
                        THEN [c EXCEPT !.pc = "sendMessage",
                                       !.message = "sent"]
                        ELSE convertAndDownloadCall(c)]
  /\ TabRest

\* The content script receives the GET_IMAGE_URL message and responds.
OnGetImageUrl ==
  /\ tab.phase = "page"
  /\ tab.click.pc = "sendMessage"
  /\ tab.click.message = "sent"
  /\ LET a == onGetImageUrl(tab.lastClickedImage, tab.click.srcUrl)
     IN tab' = [tab EXCEPT !.lastClickedImage = a.lastClickedImage,
                           !.lastResponse = a.response,
                           !.requests = @ + 1,
                           !.answeredSince = TRUE,
                           !.click.message = "responded"]
  /\ TabRest

\* await chrome.tabs.sendMessage resolves with the content script's response.
OnClickedResponse ==
  /\ tab.phase = "page"
  /\ tab.click.pc = "sendMessage"
  /\ tab.click.message = "responded"
  /\ tab' = [tab EXCEPT !.click = onClickedResponse(@, tab.lastResponse)]
  /\ TabRest

\* await chrome.tabs.sendMessage rejects: no content script in the tab.
OnClickedMessageThrows ==
  /\ tab.phase = "page"
  /\ tab.click.pc = "sendMessage"
  /\ tab.click.message = "sent"
  /\ tab' = [tab EXCEPT !.click = onClickedMessageCatch(@)]
  /\ TabRest

NextTab ==
  \/ ContextMenuEvent
  \/ OnClicked
  \/ OnClickedSettings
  \/ OnGetImageUrl
  \/ OnClickedResponse
  \/ OnClickedMessageThrows

SpecTab == InitTab /\ [][NextTab]_vars

\* ------------------------------------------------------------------ claims

Delegating(p) == inv[p].delegatedResult # "none"
UsingDocument(p) == inv[p].pc \in {"blobToDataURL", "sendMessage", "dataURLToBlob"}

\* C1: among concurrent delegated invocations at most one createDocument
\* call is in flight; the others await it instead of issuing their own.
C1_SingleCreationInFlight ==
  Cardinality({p \in Procs : inv[p].pc = "createDocument"}) <= 1

\* C2: while an invocation that found the document already existing has its
\* CONVERT_TO_JPEG request in flight, no step closes the document.
C2_NoCloseDuringUse ==
  [][\A q \in Procs :
       (inv[q].pc = "sendMessage" /\ ~inv[q].documentCreated /\ docs > 0)
         => docs' >= docs]_vars

\* C3: only the invocation that created the document closes it: an
\* invocation that found it existing issues no close call, and the creator
\* issues exactly one, once its own use has completed (with a result or with
\* an error), for the document it created.
C3_OnlyCreatorCloses ==
  \A p \in Procs :
    /\ inv[p].closeCalls <= 1
    /\ inv[p].closeCalls > 0 =>
         /\ inv[p].documentCreated /\ inv[p].created
         /\ ~UsingDocument(p)
    /\ inv[p].pc = "closeDocument" =>
         /\ inv[p].closeCalls = 1
         /\ inv[p].pending \in {"ok", "error"}
         /\ docOwner = p
    /\ (inv[p].created /\ inv[p].delegatedResult \in {"ok", "failed"}) =>
         inv[p].closeCalls = 1

\* C3 witness: the creator has closed after a failed use while an invocation
\* that reused the document completed without closing.
C3_Witness ==
  \E p, q \in Procs :
    /\ inv[p].created /\ inv[p].closeCalls = 1
    /\ inv[p].delegatedResult = "failed"
    /\ ~inv[q].documentCreated /\ inv[q].delegatedResult = "ok"
    /\ inv[q].closeCalls = 0

StageOrder == <<"fetch", "fetched", "rasterize", "rasterized", "deliver", "delivered">>

IsPrefix(s, t) == Len(s) <= Len(t) /\ SubSeq(t, 1, Len(s)) = s

Logged(p, e) == \E i \in 1..Len(inv[p].stageLog) : inv[p].stageLog[i] = e

RasterizePcs == {"createImageBitmap", "convertToBlob", "getContexts",
                 "createDocument", "blobToDataURL", "sendMessage",
                 "dataURLToBlob", "closeDocument"}
DeliveryPcs == {"downloadDataURL", "download"}

\* C5: within one invocation the stages run in order: Rasterize begins only
\* after Fetch has returned the body, Delivery only after Rasterize has
\* returned the JPEG, however the other invocations interleave.
C5_StagesInOrder ==
  \A p \in Procs :
    /\ IsPrefix(inv[p].stageLog, StageOrder)
    /\ inv[p].pc \in RasterizePcs =>
         /\ inv[p].blob = "fetched" /\ Logged(p, "fetched")
         /\ ~Logged(p, "deliver")
    /\ inv[p].pc \in DeliveryPcs =>
         /\ inv[p].jpegBlob = "jpeg" /\ Logged(p, "rasterized")
    /\ inv[p].pc \in {"fetch", "blob"} => ~Logged(p, "rasterize")

\* C5 witness: one invocation has run all three stages while another is in
\* the middle of its own pipeline.
C5_Witness ==
  \E p, q \in Procs :
    /\ inv[p].stageLog = StageOrder
    /\ inv[q].pc \in RasterizePcs

\* C6: a failed stage aborts the rest: after a Fetch failure (a 404 response
\* included) nothing is rasterized or delivered, after a Rasterize failure
\* nothing is delivered; download is called at most once and only with an
\* encoded JPEG; a failed invocation writes no file.
C6_FailureAborts ==
  \A p \in Procs :
    /\ inv[p].downloadCalls <= 1
    /\ inv[p].downloadCalls > 0 => inv[p].jpegBlob = "jpeg"
    /\ (inv[p].status # NoStatus /\ ~(inv[p].status \in 200..299)) =>
         inv[p].failedStage = "fetch"
    /\ inv[p].failedStage = "fetch" =>
         /\ ~Logged(p, "rasterize") /\ ~Logged(p, "deliver")
         /\ inv[p].directResult = "none" /\ inv[p].delegatedResult = "none"
         /\ inv[p].downloadCalls = 0
    /\ inv[p].failedStage = "rasterize" =>
         /\ ~Logged(p, "deliver")
         /\ inv[p].downloadCalls = 0
    /\ inv[p].failedStage # "none" => inv[p].pc = "done"
    /\ inv[p].outcome = "failed" => ~inv[p].fileWritten
    /\ inv[p].fileWritten => inv[p].downloadCalls = 1

\* C6 witness: one invocation was aborted by a 404 response and another by
\* the failure of both rasterization strategies.
C6_Witness ==
  \E p, q \in Procs :
    /\ inv[p].status = HTTP_NOT_FOUND /\ inv[p].outcome = "failed"
    /\ inv[q].directResult = "failed" /\ inv[q].delegatedResult = "failed"
    /\ inv[q].outcome = "failed"

\* C7: every invocation that fails raises exactly one user-visible
\* notification, and every invocation that succeeds raises none.
C7_OneNotificationPerFailure ==
  \A p \in Procs :
    /\ inv[p].outcome = "failed" => inv[p].notifications = 1
    /\ inv[p].outcome = "success" => inv[p].notifications = 0

RasterizeFinished(p) == Logged(p, "rasterized") \/ inv[p].failedStage = "rasterize"

\* C8: a failure or unavailability of the direct strategy is never the
\* outcome of convertToJPEG: the delegated strategy is entered and its
\* result is the result; a direct success enters no delegated strategy and
\* issues no createDocument.
C8_DirectFailureFallsBack ==
  \A p \in Procs :
    /\ inv[p].directResult \in {"failed", "unavailable"} => Delegating(p)
    /\ inv[p].directResult \in {"none", "pending", "ok"} =>
         /\ ~Delegating(p)
         /\ inv[p].createCalls = 0 /\ ~inv[p].created
    /\ (RasterizeFinished(p) /\ inv[p].directResult # "ok") =>
         /\ inv[p].delegatedResult \in {"ok", "failed"}
         /\ inv[p].delegatedResult = "ok" <=> inv[p].jpegBlob = "jpeg"
         /\ inv[p].delegatedResult = "failed" <=> inv[p].failedStage = "rasterize"
    /\ inv[p].failedStage = "rasterize" => inv[p].delegatedResult = "failed"
    /\ inv[p].directResult = "ok" => inv[p].jpegBlob = "jpeg"

\* C8 witness: one conversion recovered from a direct failure through the
\* delegated strategy, another succeeded directly.
C8_Witness ==
  \E p, q \in Procs :
    /\ inv[p].directResult = "failed" /\ inv[p].delegatedResult = "ok"
    /\ inv[p].jpegBlob = "jpeg"
    /\ inv[q].directResult = "ok" /\ inv[q].jpegBlob = "jpeg"

\* C9: every conversion that finds OffscreenCanvas defined attempts the
\* direct strategy, also after earlier conversions failed in it.
C9_DirectAttemptedFirst ==
  \A p \in Procs :
    /\ Logged(p, "rasterize") => inv[p].offscreenCanvas # "unprobed"
    /\ inv[p].offscreenCanvas = "defined" =>
         inv[p].directResult \in {"pending", "ok", "failed"}
    /\ inv[p].offscreenCanvas = "undefined" =>
         inv[p].directResult = "unavailable"

\* C9 witness: a conversion that started after another one's direct failure
\* is attempting the direct strategy.
C9_Witness ==
  \E p \in Procs :
    /\ inv[p].priorDirectFailure
    /\ inv[p].offscreenCanvas = "defined"
    /\ inv[p].pc = "createImageBitmap"

\* C10: no fetch stays pending beyond the 30-second budget: by then it has
\* been cancelled and has failed with a timeout.
C10_FetchTimesOut ==
  \A p \in Procs : inv[p].pc = "fetch" => inv[p].fetchElapsed <= FETCH_TIMEOUT

\* C17: no ImageBitmap of the direct strategy is left open: every bitmap
\* that was created has been closed by the time convertWithOffscreenCanvas
\* returns or throws.
C17_BitmapAlwaysClosed ==
  \A p \in Procs : ~inv[p].bitmapOpen

\* C18: after a successful download the transient reference created by
\* Delivery is live until the 60-second delay has elapsed and released
\* once it has.
C18_ReleaseAfterGrace ==
  \A p \in Procs :
    inv[p].outcome = "success" =>
      /\ inv[p].transientRef # "none"
      /\ inv[p].sinceDownload < DOWNLOAD_GRACE => inv[p].transientRef = "live"
      /\ inv[p].sinceDownload >= DOWNLOAD_GRACE => inv[p].transientRef = "released"

\* C19: when chrome.downloads.download fails, the transient reference
\* created by Delivery has been released by the time the error reaches the
\* listener.
C19_ReleaseOnFailure ==
  \A p \in Procs :
    (inv[p].failedStage = "delivery" /\ inv[p].downloadCalls > 0) =>
      inv[p].transientRef = "released"

\* The declared content type indicates SVG / JPEG.
IsVectorType(mime) == mime \in {IMAGE_SVG, IMAGE_SVG_UTF8}
IsJPEGType(mime) == mime = IMAGE_JPEG

\* The strategies that have rasterized the source, with their results.
RasterResults ==
  IF raster.phase = "decoded"
    THEN {raster[s].out : s \in {s \in {"direct", "helper"} : raster[s].run}}
    ELSE {}

Abs(x) == IF x >= 0 THEN x ELSE -x

\* C11: in both strategies the drawing surface is allocated with a positive
\* width and a positive height, also for a source that reports zero
\* dimensions.
C11_PositiveTarget ==
  \A out \in RasterResults : out.width > 0 /\ out.height > 0

\* C12: a source with intrinsic dimensions (0,0) is rasterized at exactly
\* 2048 x 2048, whatever its content type and strategy.
C12_ZeroSourceFallback ==
  \A out \in RasterResults :
    (raster.w = 0 /\ raster.h = 0) => (out.width = 2048 /\ out.height = 2048)

\* C13: an SVG source with max(width, height) < 1024 is rasterized with a
\* longer edge of exactly 2048 and, when both dimensions are nonzero, with
\* its aspect ratio kept to within one pixel.
C13_VectorUpscale ==
  \A out \in RasterResults :
    (IsVectorType(raster.mime) /\ Max(raster.w, raster.h) < 1024) =>
      /\ Max(out.width, out.height) = 2048
      /\ (raster.w > 0 /\ raster.h > 0) =>
           Abs(out.width * raster.h - out.height * raster.w)
             <= Max(raster.w, raster.h)

\* C14: a non-SVG source with nonzero dimensions is rasterized at its
\* intrinsic size in both strategies, and only a source whose content type
\* indicates SVG is treated as a vector source.
C14_RasterKeepsSize ==
  \A out \in RasterResults :
    /\ (~IsVectorType(raster.mime) /\ raster.w > 0 /\ raster.h > 0) =>
         (out.width = raster.w /\ out.height = raster.h)
    /\ out.isSVG => IsVectorType(raster.mime)

\* C15: needsBackground is true exactly when the content type is not JPEG,
\* it reaches the helper unchanged, and each strategy fills the background
\* exactly when it is true.
C15_FillIffNotJPEG ==
  \A out \in RasterResults :
    /\ out.needsBackground <=> ~IsJPEGType(raster.mime)
    /\ out.filled <=> out.needsBackground

\* C15 witness: both strategies have rasterized a JPEG source without the
\* fill.
C15_Witness ==
  /\ raster.phase = "decoded"
  /\ IsJPEGType(raster.mime)
  /\ raster.direct.run /\ ~raster.direct.out.filled
  /\ raster.helper.run /\ ~raster.helper.out.filled

\* C16: for the same source the two strategies compute the same target
\* width and height and make the same vector decision.
C16_SameGeometry ==
  (raster.phase = "decoded" /\ raster.direct.run /\ raster.helper.run) =>
    /\ raster.direct.out.width = raster.helper.out.width
    /\ raster.direct.out.height = raster.helper.out.height
    /\ raster.direct.out.isSVG = raster.helper.out.isSVG

\* C20: sanitizing a name that the sanitization steps produced gives the
\* same name.
C20_SanitizeIdempotent ==
  naming.phase = "resanitized" => naming.again = naming.sanitized

\* The text after the final "/" of the parsed URL's path.
FinalSegment(url) ==
  LET path == parseURL(url).pathname
  IN SubSeq(path, lastIndexOf(path, "/") + 1, Len(path))

\* A name without what follows its first "?" or "#".
CutRemnants(s) ==
  LET i == IndexOfAny(s, {"?", "#"})
  IN IF i = 0 THEN s ELSE SubSeq(s, 1, i - 1)

\* A name without its final "." and what follows it.
BeforeFinalDot(s) ==
  LET dots == {i \in 1..Len(s) : s[i] = "."}
  IN IF dots = {} THEN s
     ELSE SubSeq(s, 1, (CHOOSE i \in dots : \A j \in dots : j <= i) - 1)

\* Illegal characters replaced, trimmed, cut to 150 characters.
Cleaned(s) == truncate(trim(replaceIllegal(s)))

\* YYYYMMDD_HHMMSS.jpg of an ISO instant YYYY-MM-DDTHH:MM:SS.sssZ
TimestampName(now) ==
  SubSeq(now, 1, 4) \o SubSeq(now, 6, 7) \o SubSeq(now, 9, 10) \o <<"_">>
    \o SubSeq(now, 12, 13) \o SubSeq(now, 15, 16) \o SubSeq(now, 18, 19)
    \o DOT_JPG

\* C21 as stated: the name handed to the download is the last path segment
\* URL-decoded, then cut at query/fragment remnants, then without its
\* extension, cleaned, with ".jpg" appended; the timestamp name when the
\* segment is absent or the cleaned name is empty.
C21_DecodeThenCut ==
  (/\ naming.phase = "named"
   /\ parseURL(naming.url).ok
   /\ decodeURIComponent(FinalSegment(naming.url)).ok) =>
    LET seg == FinalSegment(naming.url)
        stem == Cleaned(BeforeFinalDot(CutRemnants(decodeURIComponent(seg).value)))
    IN naming.filename =
         IF seg = <<>> \/ stem = <<>>
           THEN TimestampName(naming.now)
           ELSE stem \o DOT_JPG

\* C21 amended: the last path segment is cut at query/fragment remnants
\* before it is URL-decoded, so an encoded "?" or "#" stays in the name and
\* is replaced like any illegal character; the timestamp name is used when
\* the URL cannot be parsed, the segment is absent, its decoding fails or
\* the cleaned name is empty.
C21_CutThenDecode ==
  naming.phase = "named" =>
    LET seg == FinalSegment(naming.url)
        decoded == decodeURIComponent(CutRemnants(seg))
        stem == Cleaned(BeforeFinalDot(decoded.value))
    IN naming.filename =
         IF ~parseURL(naming.url).ok \/ seg = <<>> \/ ~decoded.ok \/ stem = <<>>
           THEN TimestampName(naming.now)
           ELSE stem \o DOT_JPG

\* C21 witness: https://x.test/path/photo.name.webp?x=1#y was named
\* photo.name.jpg.
C21_Witness ==
  /\ naming.phase = "named"
  /\ naming.url = HTTPS \o <<"x",".","t","e","s","t","/","p","a","t","h","/">>
                    \o PHOTO_NAME \o DOT_WEBP \o <<"?","x","=","1","#","y">>
  /\ naming.filename = PHOTO_NAME \o DOT_JPG

\* C22: each invocation reads the preferences once, at its start; the
\* settings it read are fixed from then on, whatever the options page writes
\* meanwhile, and are the ones rasterization and delivery are called with;
\* no step of the pipeline changes the store.
C22_SettingsSnapshot ==
  /\ [](\A p \in Procs :
          /\ inv[p].storageReads <= 1
          /\ inv[p].pc \notin {"idle", "done"} => inv[p].storageReads = 1
          /\ inv[p].settings # Unread => inv[p].storageReads = 1
          /\ Logged(p, "rasterize") =>
               (inv[p].settings # Unread /\ inv[p].rasterSettings = inv[p].settings)
          /\ Logged(p, "deliver") => inv[p].saveAs = inv[p].settings.saveAs)
  /\ [][/\ \A p \in Procs :
             /\ inv[p].settings # Unread => inv'[p].settings = inv[p].settings
             /\ (inv[p].settings = Unread /\ inv'[p].settings # Unread) =>
                  (inv[p].pc = "getSettings" /\ inv'[p].settings = store)
        /\ inv' # inv => store' = store]_vars

\* C22 witness: a conversion has succeeded with the settings it read at its
\* start although the options page has written other ones since.
C22_Witness ==
  \E p \in Procs :
    /\ inv[p].outcome = "success"
    /\ inv[p].settings # store
    /\ inv[p].rasterSettings = inv[p].settings
    /\ inv[p].saveAs # store.saveAs

\* C24: when closeDocument settles, resolved or rejected, the delegated
\* strategy completes as its try block did: with the encoded result if the
\* request succeeded, with the original error if it failed.
C24_TeardownFailureSwallowed ==
  [][\A p \in Procs :
       (inv[p].pc = "closeDocument" /\ inv'[p].pc # "closeDocument") =>
         /\ inv[p].pending = "ok" =>
              /\ inv'[p].delegatedResult = "ok"
              /\ inv'[p].jpegBlob = "jpeg"
              /\ inv'[p].outcome # "failed"
         /\ inv[p].pending = "error" =>
              /\ inv'[p].delegatedResult = "failed"
              /\ inv'[p].outcome = "failed"
              /\ inv'[p].error = inv[p].error]_vars

\* C24 witness: a conversion whose closeDocument was rejected has returned
\* the encoded result.
C24_Witness ==
  \E p \in Procs :
    /\ inv[p].teardownFailed
    /\ inv[p].delegatedResult = "ok"
    /\ inv[p].jpegBlob = "jpeg"

C28_NoDocumentLeft ==
  (\A p \in Procs : inv[p].pc \in {"idle", "done"}) => (docs = 0 /\ docOwner = NoOwner)

\* C28 witness: all invocations have completed, one of them after a failed
\* request to the document it created and another after reusing a document.
C28_Witness ==
  /\ \A p \in Procs : inv[p].pc = "done"
  /\ \E p, q \in Procs :
       /\ inv[p].created /\ inv[p].delegatedResult = "failed"
       /\ Delegating(q) /\ ~inv[q].documentCreated

\* C25: once handleConvertToJPEG has run for a CONVERT_TO_JPEG request,
\* exactly one response has been sent, carrying either dataUrl or error and
\* not both; if the image had loaded, its bindings are detached whether the
\* conversion succeeded or failed; and the requester throws the error of an
\* {error} response and goes on with the data URL otherwise.
C25_OneResponse ==
  /\ raster.phase \in {"handled", "resumed"} =>
       /\ Len(raster.responses) = 1
       /\ (raster.responses[1].dataUrl = Undefined)
            # (raster.responses[1].error = Undefined)
       /\ raster.responses[1].dataUrl # Undefined => raster.img = "element"
       /\ raster.img = "element" => raster.bindings = "detached"
  /\ raster.phase = "resumed" =>
       /\ raster.requester = "thrown" <=> raster.responses[1].error # Undefined
       /\ raster.requester = "thrown" => raster.error = raster.responses[1].error
       /\ raster.requester = "decoding" => raster.responses[1].dataUrl = "jpeg"

\* C25 witness: the image loaded, the drawing then failed, the helper sent
\* one {error} response and detached the image, and the requester threw.
C25_Witness ==
  /\ raster.phase = "resumed"
  /\ raster.img = "element" /\ raster.bindings = "detached"
  /\ Len(raster.responses) = 1
  /\ raster.responses[1].error = "drawImage failed"
  /\ raster.requester = "thrown"


\* C26: in the content script a GET_IMAGE_URL request is answered with
\* found: true exactly when the most recent contextmenu event targeted an
\* IMG element and no request has been answered since that event; a
\* found: true answer reports that element's URL and clears the remembered
\* element, and a contextmenu event on a non-IMG element clears it too.
C26_FoundIffFreshImage ==
  [][tab.phase = "page" =>
       /\ tab'.requests > tab.requests =>
            /\ tab'.lastResponse.found <=>
                 (tab.lastTarget.tagName = "IMG" /\ ~tab.answeredSince)
            /\ tab'.lastResponse.found =>
                 /\ tab'.lastResponse.url = tab.lastTarget.best
                 /\ tab'.lastClickedImage = NoElement
       /\ (tab'.events > tab.events /\ tab'.click = tab.click
           /\ tab'.lastTarget.tagName # "IMG") =>
            tab'.lastClickedImage = NoElement]_vars

\* One right-click on an image has been consumed by a first request and a
\* second request has been answered with found: false.
C26_Witness ==
  /\ tab.phase = "page"
  /\ tab.requests >= 2
  /\ tab.lastTarget.tagName = "IMG"
  /\ tab.answeredSince
  /\ ~tab.lastResponse.found

\* The URL rule of the listener: the pipeline runs on the content script's
\* URL only when the tab id is valid and the response has found set, and on
\* srcUrl otherwise; a rejected message still leads to the pipeline; an
\* invalid tab id sends no message; a foreign menu item starts nothing.
ListenerUrlRule ==
  LET c == tab.click
      valid == c.tabId \notin {NoTabId, TAB_ID_NONE}
  IN /\ c.pc = "pipeline" =>
          /\ c.menuItemId = MENU_ID
          /\ c.imageUrl = IF valid /\ c.message = "answered" /\ c.response.found
                            THEN c.response.url
                            ELSE c.srcUrl
     /\ c.message \in {"threw", "answered"} => c.pc = "pipeline"
     /\ ~valid => c.message = "none"
     /\ c.menuItemId # MENU_ID =>
          c.pc \in {"idle", "ignored"} /\ c.imageUrl = "" /\ c.message = "none"
     /\ c.pc = "ignored" => c.menuItemId # MENU_ID

====
